---- MODULE Spec2Model ----
(***************************************************************************)
(* Model of the two BOM utilities, utf-8+bom.py (add a UTF-8 BOM) and      *)
(* utf-8-bom.py (remove it): the BOM probe, the text classifier, the two   *)
(* per-file procedures and the batch walker of main().                     *)
(*                                                                         *)
(* A file's content is a sequence of bytes (0..255); a decoded text is a   *)
(* sequence of code points.                                                *)
(***************************************************************************)
EXTENDS Integers, Sequences, FiniteSets, TLC

(***************************************************************************)
(* Bounds of the model.                                                    *)
(***************************************************************************)
\* A drawn file content is the concatenation of at most MaxTokens tokens.
MaxTokens == 3
\* A drawn directory tree holds at most MaxFiles files.
MaxFiles == 2

(***************************************************************************)
(* Program constants.                                                      *)
(***************************************************************************)
\* f.read(3) in has_utf8_bom
BomProbeLen == 3
\* f.read(1024) in is_text_file
ChunkSize == 1024
\* codecs.BOM_UTF8
BOM_UTF8 == <<239, 187, 191>>

NUL == 0
LF == 10
CR == 13

Min(a, b) == IF a < b THEN a ELSE b

\* bytes[:n]
Take(s, n) == SubSeq(s, 1, Min(n, Len(s)))
\* bytes[n:]
Drop(s, n) == SubSeq(s, Min(n, Len(s)) + 1, Len(s))

(***************************************************************************)
(* The UTF-8 codec behind open(..., encoding='utf-8').                     *)
(***************************************************************************)
IsCont(b) == b >= 128 /\ b <= 191

\* Number of bytes of the well-formed UTF-8 sequence at the head of s, 0 when
\* the head of s is not one (strict decoding: no overlong forms, no
\* surrogates, nothing above U+10FFFF).
Utf8SeqLen(s) ==
  LET b1 == s[1]
      b2 == s[2]
      n == Len(s)
  IN IF b1 < 128 THEN 1
     ELSE IF b1 >= 194 /\ b1 <= 223
       THEN IF n >= 2 /\ IsCont(b2) THEN 2 ELSE 0
     ELSE IF b1 >= 224 /\ b1 <= 239
       THEN IF n >= 3 /\ IsCont(b2) /\ IsCont(s[3])
               /\ (b1 = 224 => b2 >= 160)
               /\ (b1 = 237 => b2 <= 159)
            THEN 3 ELSE 0
     ELSE IF b1 >= 240 /\ b1 <= 244
       THEN IF n >= 4 /\ IsCont(b2) /\ IsCont(s[3]) /\ IsCont(s[4])
               /\ (b1 = 240 => b2 >= 144)
               /\ (b1 = 244 => b2 <= 143)
            THEN 4 ELSE 0
     ELSE 0

\* The code point of the well-formed sequence of k bytes at the head of s.
Utf8CodePoint(s, k) ==
  IF k = 1 THEN s[1]
  ELSE IF k = 2 THEN (s[1] - 192) * 64 + (s[2] - 128)
  ELSE IF k = 3 THEN (s[1] - 224) * 4096 + (s[2] - 128) * 64 + (s[3] - 128)
  ELSE (s[1] - 240) * 262144 + (s[2] - 128) * 4096 + (s[3] - 128) * 64
       + (s[4] - 128)

\* bytes.decode('utf-8'): ok is FALSE where Python raises UnicodeDecodeError.
RECURSIVE Utf8Decode(_)
Utf8Decode(s) ==
  IF s = <<>> THEN [ok |-> TRUE, text |-> <<>>]
  ELSE LET k == Utf8SeqLen(s)
       IN IF k = 0 THEN [ok |-> FALSE, text |-> <<>>]
          ELSE LET rest == Utf8Decode(Drop(s, k))
               IN IF rest.ok
                  THEN [ok |-> TRUE,
                        text |-> <<Utf8CodePoint(s, k)>> \o rest.text]
                  ELSE rest

\* The UTF-8 bytes of one code point.
Utf8EncodeOne(c) ==
  IF c < 128 THEN <<c>>
  ELSE IF c < 2048 THEN <<192 + (c \div 64), 128 + (c % 64)>>
  ELSE IF c < 65536
    THEN <<224 + (c \div 4096), 128 + ((c \div 64) % 64), 128 + (c % 64)>>
  ELSE <<240 + (c \div 262144), 128 + ((c \div 4096) % 64),
         128 + ((c \div 64) % 64), 128 + (c % 64)>>

\* str.encode('utf-8')
RECURSIVE Utf8Encode(_)
Utf8Encode(t) ==
  IF t = <<>> THEN <<>> ELSE Utf8EncodeOne(Head(t)) \o Utf8Encode(Tail(t))

(***************************************************************************)
(* Text-mode I/O: open(path, 'r' | 'w', encoding=...) with the default     *)
(* newline=None.                                                           *)
(***************************************************************************)
\* On reading, '\r\n' and a lone '\r' both become '\n'.
RECURSIVE UniversalNewlines(_)
UniversalNewlines(t) ==
  IF t = <<>> THEN <<>>
  ELSE IF Head(t) = CR
    THEN IF Len(t) >= 2 /\ t[2] = LF
         THEN <<LF>> \o UniversalNewlines(Drop(t, 2))
         ELSE <<LF>> \o UniversalNewlines(Tail(t))
  ELSE <<Head(t)>> \o UniversalNewlines(Tail(t))

\* On writing, every '\n' becomes os.linesep.
RECURSIVE TranslateNewlines(_, _)
TranslateNewlines(t, sep) ==
  IF t = <<>> THEN <<>>
  ELSE (IF Head(t) = LF THEN sep ELSE <<Head(t)>>)
       \o TranslateNewlines(Tail(t), sep)

\* Whether the content starts with the three BOM bytes.
StartsWithBom(bytes) == Take(bytes, BomProbeLen) = BOM_UTF8

\* f.read() of a file opened 'r' with encoding 'utf-8' (sig FALSE) or
\* 'utf-8-sig' (sig TRUE: one leading BOM, if any, is skipped).
ReadText(bytes, sig) ==
  LET raw == IF sig /\ StartsWithBom(bytes) THEN Drop(bytes, 3) ELSE bytes
      d == Utf8Decode(raw)
  IN [ok |-> d.ok, text |-> UniversalNewlines(d.text)]

\* What f.write(text) leaves in a file opened 'w' with encoding 'utf-8'
\* (sig FALSE) or 'utf-8-sig' (sig TRUE: the BOM is written first).
WriteText(text, sig, sep) ==
  (IF sig THEN BOM_UTF8 ELSE <<>>) \o Utf8Encode(TranslateNewlines(text, sep))

(***************************************************************************)
(* I/O failures.  Each open() or write of a procedure may fail with an     *)
(* OSError; faults is the set of steps that fail if they are attempted.    *)
(***************************************************************************)
Steps == {"probe", "classify", "read", "wopen", "wdata"}

\* The fault sets drawn: the probe fails or not, and at most one later step
\* fails (a procedure ends at the first later step that fails, so a larger
\* set behaves as one of these).
FaultSets ==
  {p \cup r : p \in {{}, {"probe"}},
              r \in {{}, {"classify"}, {"read"}, {"wopen"}, {"wdata"}}}

\* A write that fails after open() truncated the file leaves a prefix of the
\* new content, of at most MaxCut bytes.
MaxCut == 1

Cuts(faults) == IF "wdata" \in faults THEN 0..MaxCut ELSE {0}

\* has_utf8_bom reading two bytes only: never equal to the BOM.
has_utf8_bom_short_read(bytes, fail) ==
  IF fail THEN FALSE ELSE Take(bytes, 2) = BOM_UTF8

\* has_utf8_bom: the first three bytes equal the BOM; any failure is False.
has_utf8_bom(bytes, fail) ==
  IF fail THEN FALSE ELSE Take(bytes, BomProbeLen) = BOM_UTF8

\* is_text_file without the test for a zero byte.
is_text_file_unchecked(bytes, fail) == ~ fail

\* is_text_file: no zero byte in the first 1024 bytes; any failure is False.
is_text_file(bytes, fail) ==
  IF fail THEN FALSE
  ELSE LET chunk == Take(bytes, ChunkSize)
       IN ~ \E i \in 1..Len(chunk) : chunk[i] = NUL

\* The except clauses without "except Exception": an OSError escapes.
ExceptClausesDecodeOnly(exc) ==
  IF exc = "UnicodeDecodeError" THEN [caught |-> TRUE, result |-> "not_utf8"]
  ELSE [caught |-> FALSE, result |-> "raise"]

\* One except clause for everything, reporting not_utf8.
ExceptClausesOneHandler(exc) == [caught |-> TRUE, result |-> "not_utf8"]

\* The except clauses of the two procedures: what each exception raised in
\* the try block becomes.
ExceptClauses(exc) ==
  IF exc = "UnicodeDecodeError" THEN [caught |-> TRUE, result |-> "not_utf8"]
  ELSE IF exc = "OSError" THEN [caught |-> TRUE, result |-> "error"]
  ELSE [caught |-> FALSE, result |-> "raise"]

\* A procedure's return: the result string, the file's bytes afterwards and
\* the steps that failed while it ran.
Return(result, after, failed) ==
  [caught |-> TRUE, result |-> result, after |-> after, failed |-> failed]

Raise(exc, after, failed) ==
  LET h == ExceptClauses(exc)
  IN [caught |-> h.caught, result |-> h.result, after |-> after,
      failed |-> failed]

\* with open(file_path, 'w', encoding=...) as f: f.write(content)
Rewrite(bytes, new, faults, cut) ==
  IF "wopen" \in faults THEN [raised |-> TRUE, after |-> bytes, at |-> "wopen"]
  ELSE IF "wdata" \in faults
    THEN [raised |-> TRUE, after |-> Take(new, cut), at |-> "wdata"]
  ELSE [raised |-> FALSE, after |-> new, at |-> "none"]

\* add_bom_to_file(file_path, dry_run)
add_bom_to_file(bytes, dry_run, faults, cut, sep) ==
  IF has_utf8_bom(bytes, "probe" \in faults)
  THEN Return("already_has_bom", bytes, {})
  ELSE IF ~ is_text_file(bytes, "classify" \in faults)
  THEN Return("not_text_file", bytes, faults \cap {"probe", "classify"})
  ELSE LET f0 == faults \cap {"probe"}
       IN IF "read" \in faults
          THEN Raise("OSError", bytes, f0 \cup {"read"})
          ELSE LET r == ReadText(bytes, FALSE)
               IN IF ~ r.ok THEN Raise("UnicodeDecodeError", bytes, f0)
                  ELSE IF dry_run THEN Return("dry_run", bytes, f0)
                  ELSE LET w == Rewrite(bytes, WriteText(r.text, TRUE, sep),
                                        faults, cut)
                       IN IF w.raised
                          THEN Raise("OSError", w.after, f0 \cup {w.at})
                          ELSE Return("bom_added", w.after, f0)

\* remove_bom_from_file(file_path, dry_run)
remove_bom_from_file(bytes, dry_run, faults, cut, sep) ==
  IF ~ has_utf8_bom(bytes, "probe" \in faults)
  THEN Return("no_bom", bytes, faults \cap {"probe"})
  ELSE IF ~ is_text_file(bytes, "classify" \in faults)
  THEN Return("not_text_file", bytes, faults \cap {"classify"})
  ELSE IF "read" \in faults
  THEN Raise("OSError", bytes, {"read"})
  ELSE LET r == ReadText(bytes, TRUE)
       IN IF ~ r.ok THEN Raise("UnicodeDecodeError", bytes, {})
          ELSE IF dry_run THEN Return("dry_run", bytes, {})
          ELSE LET w == Rewrite(bytes, WriteText(r.text, FALSE, sep),
                                faults, cut)
               IN IF w.raised
                  THEN Raise("OSError", w.after, {w.at})
                  ELSE Return("bom_removed", w.after, {})

(***************************************************************************)
(* File contents drawn for the model.                                      *)
(***************************************************************************)
\* The building blocks of a content: the BOM, 'a', a zero byte, '\n', '\r',
\* the invalid byte 0xFF and the two bytes of U+00E9.
Tokens == {BOM_UTF8, <<97>>, <<NUL>>, <<LF>>, <<CR>>, <<255>>, <<195, 169>>}

RECURSIVE Concat(_)
Concat(ss) == IF ss = <<>> THEN <<>> ELSE Head(ss) \o Concat(Tail(ss))

Contents ==
  {Concat(ss) : ss \in UNION {[1..n -> Tokens] : n \in 0..MaxTokens}}

\* os.linesep: '\n' on POSIX, '\r\n' on Windows.
LineSeps == {<<LF>>, <<CR, LF>>}

(***************************************************************************)
(* The directory tree and the command line.  A path is a sequence of       *)
(* names; a name is the sequence of its dot-separated pieces, so that      *)
(* "a.txt" is <<"a", "txt">> and ".git" is <<"", "git">>.                    *)
(***************************************************************************)
\* Path.cwd().parts
Cwd == << <<"/">>, <<"work">> >>

\* The files a drawn tree may hold, relative to the current directory.
FilePaths ==
  { << <<"a", "txt">> >>,
    << <<"sub">>, <<"b", "md">> >>,
    << <<"venv">>, <<"c", "txt">> >>,
    << <<"sub">>, <<"venv">>, <<"d", "txt">> >> }

\* The contents a file of a drawn tree may have: plain text, text behind a
\* BOM, a zero byte, and invalid UTF-8 without and with a BOM.
TreeContents ==
  { <<97>>, BOM_UTF8 \o <<97>>, <<NUL, 97>>, <<255>>, BOM_UTF8 \o <<255>> }

\* A tree maps the paths of its files to their bytes.
Trees ==
  UNION { [ps -> TreeContents] :
            ps \in {q \in SUBSET FilePaths : Cardinality(q) <= MaxFiles} }

\* The directories of a tree: the proper prefixes of its files' paths.
DirsOf(t) ==
  UNION { { SubSeq(p, 1, n) : n \in 1..(Len(p) - 1) } : p \in DOMAIN t }

\* --extensions of utf-8+bom.py: its default, or one extension.
AddExtensions ==
  { << <<"cu">>, <<"c">>, <<"cpp">>, <<"h">>, <<"txt">>, <<"md">>, <<"mk">>,
       <<"cuh">> >>,
    << <<"txt">> >> }

\* --extensions of utf-8-bom.py: its default None (here <<>>), or one.
RemoveExtensions == { <<>>, << <<"txt">> >> }

\* --exclude-dirs: the default, or one directory name.
ExcludeDirs ==
  { { <<"", "git">>, <<"__pycache__">>, <<"node_modules">>, <<"venv">> },
    { <<"sub">> } }

\* parser.parse_args() of either program; mode tells which program runs.
Args ==
  [mode : {"add"}, dry_run : BOOLEAN, extensions : AddExtensions,
   exclude_dirs : ExcludeDirs]
  \cup
  [mode : {"remove"}, dry_run : BOOLEAN, extensions : RemoveExtensions,
   exclude_dirs : ExcludeDirs]

\* fnmatch of a name against "*.<ext>": the name ends with "." and ext.
MatchesExt(name, ext) ==
  /\ Len(name) > Len(ext)
  /\ SubSeq(name, Len(name) - Len(ext) + 1, Len(name)) = ext

\* current_dir.glob("**/*.<ext>"): every file or directory below the current
\* directory whose name matches.
GlobExt(t, ext) ==
  { p \in DOMAIN t \cup DirsOf(t) : MatchesExt(p[Len(p)], ext) }

\* current_dir.glob("**/*"): every file and directory below it.
GlobAll(t) == DOMAIN t \cup DirsOf(t)

\* The entries main() iterates over, pattern by pattern.
Patterns(a, t) ==
  IF a.mode = "remove" /\ a.extensions = <<>>
  THEN << GlobAll(t) >>
  ELSE [i \in 1..Len(a.extensions) |-> GlobExt(t, a.extensions[i])]

\* The loops of main() leave a pattern when its entries are exhausted.
RECURSIVE SkipEmpty(_)
SkipEmpty(pend) ==
  IF pend # <<>> /\ Head(pend) = {} THEN SkipEmpty(Tail(pend)) ELSE pend

\* file_path.is_dir()
is_dir(t, p) == p \in DirsOf(t)

\* The exclusion test looking at the name of the parent directory only.
ExcludedByParent(p, exclude_dirs) ==
  LET parts == Cwd \o p
  IN parts[Len(parts) - 1] \in exclude_dirs

\* any(exclude_dir in file_path.parts for exclude_dir in args.exclude_dirs)
Excluded(p, exclude_dirs) ==
  LET parts == Cwd \o p
  IN \E d \in exclude_dirs : \E i \in 1..Len(parts) : parts[i] = d

\* The stats dictionary of each program.
TotalKey(mode) == IF mode = "add" THEN "total_found" ELSE "total_checked"
ChangedKey(mode) == IF mode = "add" THEN "bom_added" ELSE "bom_removed"
SkippedKey(mode) == IF mode = "add" THEN "already_has_bom" ELSE "no_bom"
OutcomeKeys(mode) ==
  {ChangedKey(mode), SkippedKey(mode), "not_text_file", "not_utf8", "errors"}
StatKeys(mode) == {TotalKey(mode)} \cup OutcomeKeys(mode)

Bump(st, k) == [st EXCEPT ![k] = @ + 1]

\* The if/elif chain of main() that updates the statistics from a result.
UpdateStats(mode, st, result) ==
  IF result = ChangedKey(mode) THEN Bump(st, ChangedKey(mode))
  ELSE IF result = SkippedKey(mode) THEN Bump(st, SkippedKey(mode))
  ELSE IF result = "not_text_file" THEN Bump(st, "not_text_file")
  ELSE IF result = "not_utf8" THEN Bump(st, "not_utf8")
  ELSE IF result = "error" THEN Bump(st, "errors")
  ELSE st

\* The procedure called without dry_run=args.dry_run (its default is False).
ProcedureWithoutDryRun(mode, bytes, dry_run, faults, cut, sep) ==
  IF mode = "add" THEN add_bom_to_file(bytes, FALSE, faults, cut, sep)
  ELSE remove_bom_from_file(bytes, FALSE, faults, cut, sep)

\* The per-file procedure of each program.
Procedure(mode, bytes, dry_run, faults, cut, sep) ==
  IF mode = "add" THEN add_bom_to_file(bytes, dry_run, faults, cut, sep)
  ELSE remove_bom_from_file(bytes, dry_run, faults, cut, sep)

(***************************************************************************)
(* State.                                                                  *)
(***************************************************************************)
VARIABLES
  linesep,   \* os.linesep of the platform
  tree0,     \* the files below the current directory when main() starts
  tree,      \* the files below the current directory and their bytes
  args,      \* the parsed command line
  pc,        \* where main() is: "start", "walk", "done" or "aborted"
  pending,   \* per remaining pattern, the entries still to come
  stats,     \* the stats dictionary
  log,       \* the files passed to the procedure, in order, with results
  last,      \* the last procedure call of the walk: path, result, failed
  summary,   \* what the summary printed
  content,   \* the bytes of the one file the procedures are called on
  calls      \* the calls made on it: op, dry_run, result, failed, before

walkvars == <<tree0, tree, args, pc, pending, stats, log, last, summary>>
procvars == <<content, calls>>
vars == <<linesep, tree0, tree, args, pc, pending, stats, log, last, summary,
          content, calls>>

NoCall == [path |-> <<>>, result |-> "none", failed |-> {}]
NoSummary == [printed |-> FALSE]

(***************************************************************************)
(* main(): the batch walker.                                               *)
(***************************************************************************)
Init ==
  /\ linesep \in LineSeps
  /\ tree \in Trees
  /\ tree0 = tree
  /\ args \in Args
  /\ pc = "start"
  /\ pending = <<>>
  /\ stats = [k \in StatKeys(args.mode) |-> 0]
  /\ log = <<>>
  /\ last = NoCall
  /\ summary = NoSummary
  /\ content = <<>>
  /\ calls = <<>>

\* The header is printed and the patterns are globbed.
Start ==
  /\ pc = "start"
  /\ pc' = "walk"
  /\ pending' = SkipEmpty(Patterns(args, tree))
  /\ UNCHANGED <<linesep, tree0, tree, args, stats, log, last, summary,
                 procvars>>

\* What main() does after a procedure call returned r: the statistics are
\* updated, or the exception that escaped the procedure ends the program.
AfterCall(r) == IF r.caught THEN "walk" ELSE "aborted"

\* The entries glob may yield next.  The order is the file system's; an entry
\* that the loop skips changes nothing, so those are taken first.
NextEntries(entries, t, exclude_dirs) ==
  LET skipped == {q \in entries : is_dir(t, q) \/ Excluded(q, exclude_dirs)}
  IN IF skipped # {} THEN {CHOOSE q \in skipped : TRUE} ELSE entries

\* One iteration of the inner loop, on an entry p of the current pattern.
Visit ==
  /\ pc = "walk"
  /\ pending # <<>>
  /\ \E p \in NextEntries(Head(pending), tree, args.exclude_dirs) :
       LET rest == SkipEmpty(<<Head(pending) \ {p}>> \o Tail(pending))
       IN IF is_dir(tree, p) \/ Excluded(p, args.exclude_dirs)
          THEN /\ pending' = rest
               /\ UNCHANGED <<linesep, tree0, tree, args, pc, stats, log,
                              last, summary, procvars>>
          ELSE \E faults \in FaultSets : \E cut \in Cuts(faults) :
               \E r \in {Procedure(args.mode, tree[p], args.dry_run, faults,
                                   cut, linesep)} :
                 LET counted == Bump(stats, TotalKey(args.mode))
                 IN /\ tree' = [tree EXCEPT ![p] = r.after]
                    /\ pc' = AfterCall(r)
                    /\ stats' = IF r.caught
                                THEN UpdateStats(args.mode, counted, r.result)
                                ELSE counted
                    /\ log' = Append(log, [path |-> p, result |-> r.result])
                    /\ last' = [path |-> p, result |-> r.result,
                                failed |-> r.failed]
                    /\ pending' = IF r.caught THEN rest ELSE pending
                    /\ UNCHANGED <<linesep, tree0, args, summary, procvars>>

\* The summary block, printed when the loops are over.
Summary ==
  /\ pc = "walk"
  /\ pending = <<>>
  /\ pc' = "done"
  /\ summary' = [printed |-> TRUE, stats |-> stats,
                 dry_run_line |-> args.dry_run,
                 would_change |-> stats[ChangedKey(args.mode)]]
  /\ UNCHANGED <<linesep, tree0, tree, args, pending, stats, log, last,
                 procvars>>

Next == Start \/ Visit \/ Summary

Spec == Init /\ [][Next]_vars

(***************************************************************************)
(* The per-file procedures called directly: a file is drawn, a procedure   *)
(* is called on it, and then a second one.                                 *)
(***************************************************************************)
Call(op, dry, r, before) ==
  [op |-> op, dry |-> dry, result |-> r.result, failed |-> r.failed,
   before |-> before]

InitProc ==
  /\ linesep \in LineSeps
  /\ content \in Contents
  /\ calls = <<>>
  /\ tree = <<>>
  /\ tree0 = <<>>
  /\ args = [mode |-> "none"]
  /\ pc = "proc"
  /\ pending = <<>>
  /\ stats = <<>>
  /\ log = <<>>
  /\ last = NoCall
  /\ summary = NoSummary

\* One call of add_bom_to_file on the file.
AddCall ==
  /\ Len(calls) <= 1
  /\ \E dry \in BOOLEAN, faults \in FaultSets :
       \E cut \in Cuts(faults) :
         \E r \in {add_bom_to_file(content, dry, faults, cut, linesep)} :
            /\ content' = r.after
            /\ calls' = Append(calls, Call("add", dry, r, content))
            /\ UNCHANGED <<linesep, walkvars>>

\* One call of remove_bom_from_file on the file.
RemoveCall ==
  /\ Len(calls) <= 1
  /\ \E dry \in BOOLEAN, faults \in FaultSets :
       \E cut \in Cuts(faults) :
         \E r \in {remove_bom_from_file(content, dry, faults, cut, linesep)} :
            /\ content' = r.after
            /\ calls' = Append(calls, Call("remove", dry, r, content))
            /\ UNCHANGED <<linesep, walkvars>>

NextProc == AddCall \/ RemoveCall

ProcSpec == InitProc /\ [][NextProc]_vars

(***************************************************************************)
(* Properties.                                                             *)
(***************************************************************************)
\* The file's bytes after call i.
After(i) == IF i = Len(calls) THEN content ELSE calls[i + 1].before

\* A zero byte among the first 1024 bytes.
HasZeroInChunk(bytes) == \E i \in 1..Min(Len(bytes), ChunkSize) : bytes[i] = NUL

HasZero(bytes) == \E i \in 1..Len(bytes) : bytes[i] = NUL

\* The number of files the walk gave this result.
CountResult(result) == Cardinality({i \in 1..Len(log) : log[i].result = result})

\* The path lies beneath a directory with an excluded name.
Beneath(p, exclude_dirs) == \E j \in 1..(Len(p) - 1) : p[j] \in exclude_dirs

RECURSIVE SumCard(_)
SumCard(sets) ==
  IF sets = <<>> THEN 0 ELSE Cardinality(Head(sets)) + SumCard(Tail(sets))

\* The number of procedure calls a complete walk makes: per pattern, the
\* matched files that are not excluded.
NumSurvivors ==
  LET pats == Patterns(args, tree0)
  IN SumCard([i \in 1..Len(pats) |->
                {p \in pats[i] : p \in DOMAIN tree0
                                 /\ ~ Excluded(p, args.exclude_dirs)}])

\* C1: a file without BOM, valid UTF-8 and without zero byte has its original
\* bytes again after a real Add-BOM call followed by a real Remove-BOM call.
C1_RoundTrip ==
  ( /\ Len(calls) = 2
    /\ calls[1].op = "add" /\ ~ calls[1].dry /\ calls[1].failed = {}
    /\ calls[2].op = "remove" /\ ~ calls[2].dry /\ calls[2].failed = {}
    /\ ~ StartsWithBom(calls[1].before)
    /\ Utf8Decode(calls[1].before).ok
    /\ ~ HasZero(calls[1].before) )
  => /\ calls[1].result = "bom_added"
     /\ calls[2].result = "bom_removed"
     /\ content = calls[1].before

\* C2: when a dry run is over, the "would change" count of its summary is the
\* number of files it found it would rewrite (the files a real run counts as
\* bom_added / bom_removed).
C2_DryRunCountsWouldChange ==
  (pc = "done" /\ args.dry_run)
  => summary.would_change = CountResult("dry_run")

\* C3: in a dry run every file keeps the bytes it had when the run started,
\* whatever the outcomes.
C3_DryRunWritesNothing == args.dry_run => tree = tree0

C3_Witness ==
  /\ pc = "done"
  /\ args.dry_run
  /\ CountResult("dry_run") >= 1
  /\ CountResult("error") >= 1

\* C4 as stated: a file with a zero byte in its first 1024 bytes gets
\* not_text_file from both procedures and keeps its bytes.
C4_ZeroByteIsNotTextFile ==
  \A i \in 1..Len(calls) :
    HasZeroInChunk(calls[i].before)
    => calls[i].result = "not_text_file" /\ After(i) = calls[i].before

\* C4 amended: a file with a zero byte in its first 1024 bytes keeps its bytes
\* in both procedures; Add-BOM returns not_text_file unless its probe finds a
\* BOM (then already_has_bom), Remove-BOM returns not_text_file if its probe
\* finds a BOM (otherwise no_bom).
C4_ZeroByteAfterBomProbe ==
  \A i \in 1..Len(calls) :
    HasZeroInChunk(calls[i].before)
    => LET found == StartsWithBom(calls[i].before)
                    /\ "probe" \notin calls[i].failed
       IN /\ After(i) = calls[i].before
          /\ calls[i].op = "add"
             => calls[i].result
                = (IF found THEN "already_has_bom" ELSE "not_text_file")
          /\ calls[i].op = "remove"
             => calls[i].result = (IF found THEN "not_text_file" ELSE "no_bom")

C4_Witness ==
  /\ Len(calls) = 2
  /\ calls[1].op = "add" /\ ~ calls[1].dry /\ calls[1].failed = {}
  /\ calls[1].before = <<97, NUL>>
  /\ calls[1].result = "not_text_file"
  /\ calls[2].op = "remove" /\ calls[2].failed = {}
  /\ calls[2].result = "no_bom"

\* C5: a file beneath a directory with an excluded name is never passed to
\* the procedure, keeps its bytes and is not counted in the total.
C5_ExcludedNeverProcessed ==
  /\ \A i \in 1..Len(log) : ~ Beneath(log[i].path, args.exclude_dirs)
  /\ \A p \in DOMAIN tree :
       Beneath(p, args.exclude_dirs) => tree[p] = tree0[p]
  /\ pc # "start" => stats[TotalKey(args.mode)] = Len(log)

C5_Witness ==
  /\ pc = "done"
  /\ Len(log) = 1
  /\ ~ args.dry_run
  /\ \E p \in DOMAIN tree :
       /\ Len(p) = 3
       /\ Beneath(p, args.exclude_dirs)
       /\ args.mode = "add"
       /\ MatchesExt(p[Len(p)], <<"txt">>)
       /\ ~ StartsWithBom(tree[p])

\* The steps main() has left at most: the entries still to come, then the
\* summary.
StepsLeft ==
  IF pc = "start" THEN SumCard(Patterns(args, tree)) + 2
  ELSE IF pc = "walk" THEN SumCard(pending) + 1
  ELSE 0

\* C6: whatever the outcomes of the files, the walk is never aborted: until
\* the summary is printed main() has a next step, every step brings the
\* summary nearer, and when it is printed the procedure has been called on
\* every surviving candidate.
C6_WalkCompletes ==
  /\ [](pc \in {"start", "walk", "done"})
  /\ [](pc # "done" => ENABLED Next)
  /\ [](pc = "done" => summary.printed /\ Len(log) = NumSurvivors)
  /\ [][StepsLeft' < StepsLeft]_vars

C6_Witness ==
  /\ pc = "done"
  /\ Len(log) = 2
  /\ log[1].result = "error"
  /\ log[2].result \in {"not_utf8", "error"}

C8_AnyFailureIsError ==
  /\ last.failed # {} => last.result = "error"
  /\ pc # "start" => stats["errors"] = CountResult("error")

\* C8 amended: an I/O failure of the full read or of the rewrite gives the
\* file the outcome error, and the error counter counts it; a failed text
\* classification read gives not_text_file, and a failed BOM probe alone is
\* taken as "no BOM" and gives no error.
C8_ReadOrWriteFailureIsError ==
  /\ last.failed \cap {"read", "wopen", "wdata"} # {} => last.result = "error"
  /\ "classify" \in last.failed => last.result = "not_text_file"
  /\ last.failed = {"probe"}
     => last.result \in (IF args.mode = "add"
                         THEN {"bom_added", "dry_run", "not_utf8",
                               "not_text_file"}
                         ELSE {"no_bom"})
  /\ pc # "start" => stats["errors"] = CountResult("error")

C8_Witness ==
  /\ pc = "done"
  /\ last.failed = {"probe", "wdata"}
  /\ last.result = "error"
  /\ stats["errors"] = 2

\* C9: the total counter is the sum of the outcome counters, after every
\* file and at the end of every run.
C9_TotalIsSumOfOutcomes ==
  pc # "start"
  => stats[TotalKey(args.mode)]
     = stats[ChangedKey(args.mode)] + stats[SkippedKey(args.mode)]
       + stats["not_text_file"] + stats["not_utf8"] + stats["errors"]

\* C10: after a real Remove-BOM call that returned bom_removed, the file does
\* not start with the BOM.
C10_RemovedFileHasNoBom ==
  \A i \in 1..Len(calls) :
    ( /\ calls[i].op = "remove" /\ ~ calls[i].dry
      /\ calls[i].result = "bom_removed" )
    => ~ StartsWithBom(After(i))

====
